---------------------------- MODULE Spec2Model ----------------------------
(***************************************************************************)
(* AppFaders HAL plug-in bridge: the COM-style vtable of                   *)
(* Sources/AppFadersDriverBridge/PlugInInterface.c and its factory.        *)
(*                                                                         *)
(* State: the file's statics (sDriverRefCount, sHost), the position and    *)
(* locals of each host thread inside PlugIn_Release (the only handler with *)
(* more than one access to shared state), and a record of what the host    *)
(* has observed: the driver reference it holds, the last completed call    *)
(* with its arguments and results, and the clients it has added / started. *)
(***************************************************************************)
EXTENDS Integers, Sequences, FiniteSets, TLC

(***************************************************************************)
(* Bounds of the model.                                                    *)
(***************************************************************************)
NThreads == 2        \* host threads calling into the vtable
MaxRef == 2          \* AddRef / QueryInterface are not started above this count
MaxUnder == 2        \* Release is not started more than this far below zero
MaxClientID == 2     \* client ids 1..MaxClientID
MaxObjectID == 2     \* audio object ids 1..MaxObjectID

Threads == 1 .. NThreads
ClientIDs == 1 .. MaxClientID
ObjectIDs == 1 .. MaxObjectID
DeviceIDs == {2}
StreamIDs == {3}
ProcessIDs == {100}
Addresses ==
  { [mSelector |-> s, mScope |-> "glob", mElement |-> 0] : s \in {"nsrt", "lnam"} }
QualifierSizes == {0, 4}
DataSizes == {0, 8}
OperationIDs == {"WriteMix", "ReadInput"}
FrameSizes == {512}
Hosts == {"host"}

NULL == "NULL"

\* an output location: << >> while nothing was stored through it, << v >> after
NotWritten == << >>

Written(v) == << v >>

(***************************************************************************)
(* UInt32 arithmetic (sDriverRefCount is an _Atomic UInt32).  A value is   *)
(* kept as two 16-bit halves so that the 32-bit wrap-around is exact.      *)
(***************************************************************************)
Half == 65536

U32(n) == [hi |-> n \div Half, lo |-> n % Half]

U32Inc(c) ==
  IF c.lo = Half - 1
    THEN [hi |-> (c.hi + 1) % Half, lo |-> 0]
    ELSE [hi |-> c.hi, lo |-> c.lo + 1]

U32Dec(c) ==
  IF c.lo = 0
    THEN [hi |-> (c.hi + Half - 1) % Half, lo |-> Half - 1]
    ELSE [hi |-> c.hi, lo |-> c.lo - 1]

U32Less(a, b) == a.hi < b.hi \/ (a.hi = b.hi /\ a.lo < b.lo)

U32LessEq(a, b) == a = b \/ U32Less(a, b)

\* the values 2^32 - MaxUnder .. 2^32 - 1, reached only by decrementing 0
BelowZero(c) == c.hi = Half - 1 /\ c.lo >= Half - MaxUnder

\* the model does not start an increment, or a Release, that would leave
\* the window 2^32 - MaxUnder .. MaxRef around zero
CanIncrement(c) == U32Less(c, U32(MaxRef)) \/ BelowZero(c)

CanRelease(c) == U32LessEq(c, U32(MaxRef)) \/ BelowZero(U32Dec(c))

(***************************************************************************)
(* Status codes (distinct values; only their identity matters).            *)
(***************************************************************************)
S_OK == "S_OK"
E_POINTER == "E_POINTER"
E_NOINTERFACE == "E_NOINTERFACE"
kAudioHardwareNoError == "kAudioHardwareNoError"
kAudioHardwareBadObjectError == "kAudioHardwareBadObjectError"
kAudioHardwareUnsupportedOperationError == "kAudioHardwareUnsupportedOperationError"
kAudioHardwareIllegalOperationError == "kAudioHardwareIllegalOperationError"
kAudioHardwareUnknownPropertyError == "kAudioHardwareUnknownPropertyError"
kAudioHardwareNotRunningError == "kAudioHardwareNotRunningError"

(***************************************************************************)
(* UUIDs: 16 bytes, compared bytewise by CFEqual.                          *)
(***************************************************************************)
CFUUIDGetConstantUUIDWithBytes(b0, b1, b2, b3, b4, b5, b6, b7, b8, b9, b10, b11, b12, b13, b14, b15) ==
  << b0, b1, b2, b3, b4, b5, b6, b7, b8, b9, b10, b11, b12, b13, b14, b15 >>

\* REFIID is a CFUUIDBytes struct of 16 byte fields
CFUUIDBytes(u) == [i \in 0 .. 15 |-> u[i + 1]]

CFUUIDCreateFromUUIDBytes(bytes) == [i \in 1 .. 16 |-> bytes[i - 1]]

CFEqual(a, b) == a = b

driverInterfaceUUID ==
  CFUUIDGetConstantUUIDWithBytes(238, 165, 119, 61, 204, 67, 73, 241,
                                 142, 0, 143, 150, 231, 210, 59, 23)

iunknownUUID ==
  CFUUIDGetConstantUUIDWithBytes(0, 0, 0, 0, 0, 0, 0, 0,
                                 192, 0, 0, 0, 0, 0, 0, 70)

audioServerPlugInTypeUUID ==
  CFUUIDGetConstantUUIDWithBytes(68, 58, 186, 184, 231, 179, 73, 26,
                                 185, 133, 190, 185, 24, 112, 48, 219)

\* a UUID that differs from the plug-in type UUID in its last byte only
otherUUID == [audioServerPlugInTypeUUID EXCEPT ![16] = 220]

UUIDs == {driverInterfaceUUID, iunknownUUID, audioServerPlugInTypeUUID, otherUUID}

VARIABLES
  sDriverRefCount,   \* static _Atomic UInt32
  sHost,             \* static AudioServerPlugInHostRef
  pc,                \* per thread: "idle" or "Release_loaded"
  oldCount,          \* per thread: the local oldCount of PlugIn_Release
  hostRef,           \* driver reference returned to the host by the factory
  last,              \* the last completed call: operation, arguments, what the
                     \* host had observed before it (pre), results
  hostClients,       \* clients added by the host and not removed since
  hostRunning        \* clients started by the host and not stopped since

vars == << sDriverRefCount, sHost, pc, oldCount, hostRef, last, hostClients,
           hostRunning >>

driverState == << sDriverRefCount, sHost >>

threadVars == << pc, oldCount >>

hostSets == << hostClients, hostRunning >>

DriverRef == "&gDriverInterfacePtr"

Key(args) ==
  << args.inObjectID, args.inAddress, args.inQualifierDataSize >>

\* the size that `call` reported for the property `key`: Written(n) when call
\* is a GetPropertyDataSize for that key that stored a size, else NotWritten
SizeReported(call, key) ==
  IF call.op = "GetPropertyDataSize" /\ Key(call.args) = key
    THEN call.out.outDataSize
    ELSE NotWritten

Init ==
  /\ sDriverRefCount = U32(0)
  /\ sHost = NULL
  /\ pc = [t \in Threads |-> "idle"]
  /\ oldCount = [t \in Threads |-> U32(0)]
  /\ hostRef = NULL
  /\ last = [op |-> "none", args |-> << >>, pre |-> << >>, ret |-> "none",
             out |-> << >>]
  /\ hostClients = {}
  /\ hostRunning = {}

\* the call returns to the host
\* ... the host noting, with the call, what it had observed before it
ReturnObs(op, args, pre, ret, out) ==
  last' = [op |-> op, args |-> args, pre |-> pre, ret |-> ret, out |-> out]

Return(op, args, ret, out) == ReturnObs(op, args, << >>, ret, out)

\* thread t enters a vtable method through the driver reference it was given
Enter(t) == pc[t] = "idle" /\ hostRef # NULL

(***************************************************************************)
(* IUnknown methods                                                        *)
(***************************************************************************)
\* variant: the count is taken before the requested UUID is examined
QueryInterface_CountsFirst(t, inUUID, outInterfaceNull) ==
  /\ Enter(t)
  /\ LET args == [inUUID |-> inUUID, outInterfaceNull |-> outInterfaceNull]
         requestedUUID == CFUUIDCreateFromUUIDBytes(inUUID)
         isDriverInterface == CFEqual(requestedUUID, driverInterfaceUUID)
         isIUnknown == CFEqual(requestedUUID, iunknownUUID)
     IN IF outInterfaceNull
          THEN /\ Return("QueryInterface", args, E_POINTER,
                         [outInterface |-> NotWritten])
               /\ UNCHANGED sDriverRefCount
          ELSE /\ CanIncrement(sDriverRefCount)
               /\ sDriverRefCount' = U32Inc(sDriverRefCount)
               /\ IF isDriverInterface \/ isIUnknown
                    THEN Return("QueryInterface", args, S_OK,
                                [outInterface |-> Written(DriverRef)])
                    ELSE Return("QueryInterface", args, E_NOINTERFACE,
                                [outInterface |-> Written(NULL)])
  /\ UNCHANGED << sHost, threadVars, hostRef, hostSets >>

PlugIn_QueryInterface(t, inUUID, outInterfaceNull) ==
  /\ Enter(t)
  /\ LET args == [inUUID |-> inUUID, outInterfaceNull |-> outInterfaceNull]
         requestedUUID == CFUUIDCreateFromUUIDBytes(inUUID)
         isDriverInterface == CFEqual(requestedUUID, driverInterfaceUUID)
         isIUnknown == CFEqual(requestedUUID, iunknownUUID)
     IN IF outInterfaceNull
          THEN /\ Return("QueryInterface", args, E_POINTER,
                         [outInterface |-> NotWritten])
               /\ UNCHANGED sDriverRefCount
          ELSE IF isDriverInterface \/ isIUnknown
            THEN /\ CanIncrement(sDriverRefCount)
                 /\ sDriverRefCount' = U32Inc(sDriverRefCount)
                 /\ Return("QueryInterface", args, S_OK,
                           [outInterface |-> Written(DriverRef)])
            ELSE /\ Return("QueryInterface", args, E_NOINTERFACE,
                           [outInterface |-> Written(NULL)])
                 /\ UNCHANGED sDriverRefCount
  /\ UNCHANGED << sHost, threadVars, hostRef, hostSets >>

PlugIn_AddRef(t) ==
  /\ Enter(t)
  /\ CanIncrement(sDriverRefCount)
  /\ LET newCount == U32Inc(sDriverRefCount)
     IN /\ sDriverRefCount' = newCount
        /\ Return("AddRef", << >>, newCount, << >>)
  /\ UNCHANGED << sHost, threadVars, hostRef, hostSets >>

\* line 88: UInt32 oldCount = atomic_load(&sDriverRefCount)
PlugIn_Release_Load(t) ==
  /\ Enter(t)
  /\ CanRelease(sDriverRefCount)
  /\ pc' = [pc EXCEPT ![t] = "Release_loaded"]
  /\ oldCount' = [oldCount EXCEPT ![t] = sDriverRefCount]
  /\ UNCHANGED << sDriverRefCount, sHost, hostRef, last, hostSets >>

\* lines 89-95: the conditional atomic_fetch_sub and the return
PlugIn_Release_Finish(t) ==
  /\ pc[t] = "Release_loaded"
  /\ IF U32Less(U32(0), oldCount[t])
       THEN /\ sDriverRefCount' = U32Dec(sDriverRefCount)
            /\ Return("Release", << >>, U32Dec(sDriverRefCount), << >>)
       ELSE /\ UNCHANGED sDriverRefCount
            /\ Return("Release", << >>, U32(0), << >>)
  /\ pc' = [pc EXCEPT ![t] = "idle"]
  /\ oldCount' = [oldCount EXCEPT ![t] = U32(0)]
  /\ UNCHANGED << sHost, hostRef, hostSets >>

(***************************************************************************)
(* Basic operations                                                        *)
(***************************************************************************)
PlugIn_Initialize(t, inHost) ==
  /\ Enter(t)
  /\ IF inHost = NULL
       THEN /\ Return("Initialize", [inHost |-> inHost],
                      kAudioHardwareBadObjectError, << >>)
            /\ UNCHANGED sHost
       ELSE /\ sHost' = inHost
            /\ Return("Initialize", [inHost |-> inHost],
                      kAudioHardwareNoError, << >>)
  /\ UNCHANGED << sDriverRefCount, threadVars, hostRef, hostSets >>

\* variant: dynamic device creation is accepted and a new object id handed out
CreateDevice_Accepts(t, inClientInfo, outDeviceObjectIDNull) ==
  /\ Enter(t)
  /\ Return("CreateDevice",
            [inClientInfo |-> inClientInfo,
             outDeviceObjectIDNull |-> outDeviceObjectIDNull],
            kAudioHardwareNoError,
            [outDeviceObjectID |-> IF outDeviceObjectIDNull
                                     THEN NotWritten
                                     ELSE Written(MaxObjectID + 1)])
  /\ UNCHANGED << driverState, threadVars, hostRef, hostSets >>

PlugIn_CreateDevice(t, inClientInfo, outDeviceObjectIDNull) ==
  /\ Enter(t)
  /\ Return("CreateDevice",
            [inClientInfo |-> inClientInfo,
             outDeviceObjectIDNull |-> outDeviceObjectIDNull],
            kAudioHardwareUnsupportedOperationError,
            [outDeviceObjectID |-> NotWritten])
  /\ UNCHANGED << driverState, threadVars, hostRef, hostSets >>

PlugIn_DestroyDevice(t, inDeviceObjectID) ==
  /\ Enter(t)
  /\ Return("DestroyDevice", [inDeviceObjectID |-> inDeviceObjectID],
            kAudioHardwareUnsupportedOperationError, << >>)
  /\ UNCHANGED << driverState, threadVars, hostRef, hostSets >>

PlugIn_AddDeviceClient(t, inDeviceObjectID, inClientInfo) ==
  /\ Enter(t)
  /\ LET ret == kAudioHardwareNoError
     IN /\ ReturnObs("AddDeviceClient",
                     [inDeviceObjectID |-> inDeviceObjectID,
                      inClientInfo |-> inClientInfo],
                     [wasAdded |-> inClientInfo.mClientID \in hostClients],
                     ret, << >>)
        /\ hostClients' = IF ret = kAudioHardwareNoError
                            THEN hostClients \cup {inClientInfo.mClientID}
                            ELSE hostClients
  /\ UNCHANGED << driverState, threadVars, hostRef, hostRunning >>

PlugIn_RemoveDeviceClient(t, inDeviceObjectID, inClientInfo) ==
  /\ Enter(t)
  /\ LET ret == kAudioHardwareNoError
     IN /\ Return("RemoveDeviceClient",
                  [inDeviceObjectID |-> inDeviceObjectID,
                   inClientInfo |-> inClientInfo],
                  ret, << >>)
        /\ hostClients' = IF ret = kAudioHardwareNoError
                            THEN hostClients \ {inClientInfo.mClientID}
                            ELSE hostClients
  /\ UNCHANGED << driverState, threadVars, hostRef, hostRunning >>

PlugIn_PerformDeviceConfigurationChange(t, inDeviceObjectID, inChangeAction) ==
  /\ Enter(t)
  /\ Return("PerformDeviceConfigurationChange",
            [inDeviceObjectID |-> inDeviceObjectID,
             inChangeAction |-> inChangeAction],
            kAudioHardwareNoError, << >>)
  /\ UNCHANGED << driverState, threadVars, hostRef, hostSets >>

PlugIn_AbortDeviceConfigurationChange(t, inDeviceObjectID, inChangeAction) ==
  /\ Enter(t)
  /\ Return("AbortDeviceConfigurationChange",
            [inDeviceObjectID |-> inDeviceObjectID,
             inChangeAction |-> inChangeAction],
            kAudioHardwareNoError, << >>)
  /\ UNCHANGED << driverState, threadVars, hostRef, hostSets >>

(***************************************************************************)
(* Property operations                                                     *)
(***************************************************************************)
HasProperty(inObjectID, inClientProcessID, inAddress) == FALSE

PlugIn_HasProperty(t, inObjectID, inClientProcessID, inAddress) ==
  /\ Enter(t)
  /\ Return("HasProperty",
            [inObjectID |-> inObjectID, inAddress |-> inAddress],
            HasProperty(inObjectID, inClientProcessID, inAddress), << >>)
  /\ UNCHANGED << driverState, threadVars, hostRef, hostSets >>

\* variant: "not settable" is answered as a success
IsPropertySettable_Succeeds(t, inObjectID, inClientProcessID, inAddress, outIsSettableNull) ==
  /\ Enter(t)
  /\ LET args == [inObjectID |-> inObjectID, inAddress |-> inAddress,
                  outIsSettableNull |-> outIsSettableNull]
     IN IF outIsSettableNull
          THEN Return("IsPropertySettable", args,
                      kAudioHardwareIllegalOperationError,
                      [outIsSettable |-> NotWritten])
          ELSE Return("IsPropertySettable", args,
                      kAudioHardwareNoError,
                      [outIsSettable |-> Written(FALSE)])
  /\ UNCHANGED << driverState, threadVars, hostRef, hostSets >>

PlugIn_IsPropertySettable(t, inObjectID, inClientProcessID, inAddress, outIsSettableNull) ==
  /\ Enter(t)
  /\ LET args == [inObjectID |-> inObjectID, inAddress |-> inAddress,
                  outIsSettableNull |-> outIsSettableNull]
     IN IF outIsSettableNull
          THEN Return("IsPropertySettable", args,
                      kAudioHardwareIllegalOperationError,
                      [outIsSettable |-> NotWritten])
          ELSE Return("IsPropertySettable", args,
                      kAudioHardwareUnknownPropertyError,
                      [outIsSettable |-> Written(FALSE)])
  /\ UNCHANGED << driverState, threadVars, hostRef, hostSets >>

PlugIn_GetPropertyDataSize(t, inObjectID, inClientProcessID, inAddress, inQualifierDataSize, outDataSizeNull) ==
  /\ Enter(t)
  /\ LET args == [inObjectID |-> inObjectID, inAddress |-> inAddress,
                  inQualifierDataSize |-> inQualifierDataSize,
                  outDataSizeNull |-> outDataSizeNull]
     IN IF outDataSizeNull
          THEN Return("GetPropertyDataSize", args,
                      kAudioHardwareIllegalOperationError,
                      [outDataSize |-> NotWritten])
          ELSE Return("GetPropertyDataSize", args,
                      kAudioHardwareUnknownPropertyError,
                      [outDataSize |-> Written(0)])
  /\ UNCHANGED << driverState, threadVars, hostRef, hostSets >>

\* variant: the caller's buffer capacity is reported as the size written
GetPropertyData_EchoesCapacity(t, inObjectID, inClientProcessID, inAddress, inQualifierDataSize, inDataSize, outDataSizeNull, outDataNull) ==
  /\ Enter(t)
  /\ LET args == [inObjectID |-> inObjectID, inAddress |-> inAddress,
                  inQualifierDataSize |-> inQualifierDataSize,
                  inDataSize |-> inDataSize,
                  outDataSizeNull |-> outDataSizeNull,
                  outDataNull |-> outDataNull]
         pre == [sizeReported |-> SizeReported(last, Key(args))]
     IN IF outDataSizeNull \/ outDataNull
          THEN ReturnObs("GetPropertyData", args, pre,
                         kAudioHardwareIllegalOperationError,
                         [outDataSize |-> NotWritten])
          ELSE ReturnObs("GetPropertyData", args, pre,
                         kAudioHardwareUnknownPropertyError,
                         [outDataSize |-> Written(inDataSize)])
  /\ UNCHANGED << driverState, threadVars, hostRef, hostSets >>

PlugIn_GetPropertyData(t, inObjectID, inClientProcessID, inAddress, inQualifierDataSize, inDataSize, outDataSizeNull, outDataNull) ==
  /\ Enter(t)
  /\ LET args == [inObjectID |-> inObjectID, inAddress |-> inAddress,
                  inQualifierDataSize |-> inQualifierDataSize,
                  inDataSize |-> inDataSize,
                  outDataSizeNull |-> outDataSizeNull,
                  outDataNull |-> outDataNull]
         pre == [sizeReported |-> SizeReported(last, Key(args))]
     IN IF outDataSizeNull \/ outDataNull
          THEN ReturnObs("GetPropertyData", args, pre,
                         kAudioHardwareIllegalOperationError,
                         [outDataSize |-> NotWritten])
          ELSE ReturnObs("GetPropertyData", args, pre,
                         kAudioHardwareUnknownPropertyError,
                         [outDataSize |-> Written(0)])
  /\ UNCHANGED << driverState, threadVars, hostRef, hostSets >>

PlugIn_SetPropertyData(t, inObjectID, inClientProcessID, inAddress, inQualifierDataSize, inDataSize) ==
  /\ Enter(t)
  /\ Return("SetPropertyData",
            [inObjectID |-> inObjectID, inAddress |-> inAddress,
             inQualifierDataSize |-> inQualifierDataSize,
             inDataSize |-> inDataSize],
            kAudioHardwareUnknownPropertyError, << >>)
  /\ UNCHANGED << driverState, threadVars, hostRef, hostSets >>

(***************************************************************************)
(* IO operations                                                           *)
(***************************************************************************)
PlugIn_StartIO(t, inDeviceObjectID, inClientID) ==
  /\ Enter(t)
  /\ LET ret == kAudioHardwareNoError
     IN /\ Return("StartIO",
                  [inDeviceObjectID |-> inDeviceObjectID,
                   inClientID |-> inClientID],
                  ret, << >>)
        /\ hostRunning' = IF ret = kAudioHardwareNoError
                            THEN hostRunning \cup {inClientID}
                            ELSE hostRunning
  /\ UNCHANGED << driverState, threadVars, hostRef, hostClients >>

\* variant: stopping a client that is not running is reported as an error
StopIO_RequiresRunning(t, inDeviceObjectID, inClientID) ==
  /\ Enter(t)
  /\ LET ret == IF inClientID \in hostRunning
                  THEN kAudioHardwareNoError
                  ELSE kAudioHardwareNotRunningError
     IN /\ ReturnObs("StopIO",
                     [inDeviceObjectID |-> inDeviceObjectID,
                      inClientID |-> inClientID],
                     [wasRunning |-> inClientID \in hostRunning],
                     ret, << >>)
        /\ hostRunning' = IF ret = kAudioHardwareNoError
                            THEN hostRunning \ {inClientID}
                            ELSE hostRunning
  /\ UNCHANGED << driverState, threadVars, hostRef, hostClients >>

PlugIn_StopIO(t, inDeviceObjectID, inClientID) ==
  /\ Enter(t)
  /\ LET ret == kAudioHardwareNoError
     IN /\ ReturnObs("StopIO",
                     [inDeviceObjectID |-> inDeviceObjectID,
                      inClientID |-> inClientID],
                     [wasRunning |-> inClientID \in hostRunning],
                     ret, << >>)
        /\ hostRunning' = IF ret = kAudioHardwareNoError
                            THEN hostRunning \ {inClientID}
                            ELSE hostRunning
  /\ UNCHANGED << driverState, threadVars, hostRef, hostClients >>

PlugIn_GetZeroTimeStamp(t, inDeviceObjectID, inClientID, outSampleTimeNull, outHostTimeNull, outSeedNull) ==
  /\ Enter(t)
  /\ Return("GetZeroTimeStamp",
            [inDeviceObjectID |-> inDeviceObjectID, inClientID |-> inClientID],
            kAudioHardwareNoError,
            [outSampleTime |-> IF outSampleTimeNull THEN NotWritten
                                                    ELSE Written(0),
             outHostTime |-> IF outHostTimeNull THEN NotWritten
                                                ELSE Written(0),
             outSeed |-> IF outSeedNull THEN NotWritten ELSE Written(1)])
  /\ UNCHANGED << driverState, threadVars, hostRef, hostSets >>

PlugIn_WillDoIOOperation(t, inDeviceObjectID, inClientID, inOperationID, outWillDoNull, outWillDoInPlaceNull) ==
  /\ Enter(t)
  /\ Return("WillDoIOOperation",
            [inDeviceObjectID |-> inDeviceObjectID, inClientID |-> inClientID,
             inOperationID |-> inOperationID],
            kAudioHardwareNoError,
            [outWillDo |-> IF outWillDoNull THEN NotWritten
                                            ELSE Written(FALSE),
             outWillDoInPlace |-> IF outWillDoInPlaceNull THEN NotWritten
                                                          ELSE Written(TRUE)])
  /\ UNCHANGED << driverState, threadVars, hostRef, hostSets >>

PlugIn_BeginIOOperation(t, inDeviceObjectID, inClientID, inOperationID, inIOBufferFrameSize) ==
  /\ Enter(t)
  /\ Return("BeginIOOperation",
            [inDeviceObjectID |-> inDeviceObjectID, inClientID |-> inClientID,
             inOperationID |-> inOperationID,
             inIOBufferFrameSize |-> inIOBufferFrameSize],
            kAudioHardwareNoError, << >>)
  /\ UNCHANGED << driverState, threadVars, hostRef, hostSets >>

\* variant: a missing main buffer is reported as an error
DoIOOperation_ChecksBuffer(t, inDeviceObjectID, inStreamObjectID, inClientID, inOperationID, inIOBufferFrameSize, ioMainBufferNull, ioSecondaryBufferNull) ==
  /\ Enter(t)
  /\ Return("DoIOOperation",
            [inDeviceObjectID |-> inDeviceObjectID,
             inStreamObjectID |-> inStreamObjectID, inClientID |-> inClientID,
             inOperationID |-> inOperationID,
             inIOBufferFrameSize |-> inIOBufferFrameSize,
             ioMainBufferNull |-> ioMainBufferNull,
             ioSecondaryBufferNull |-> ioSecondaryBufferNull],
            IF ioMainBufferNull THEN kAudioHardwareIllegalOperationError
                                ELSE kAudioHardwareNoError,
            << >>)
  /\ UNCHANGED << driverState, threadVars, hostRef, hostSets >>

PlugIn_DoIOOperation(t, inDeviceObjectID, inStreamObjectID, inClientID, inOperationID, inIOBufferFrameSize, ioMainBufferNull, ioSecondaryBufferNull) ==
  /\ Enter(t)
  /\ Return("DoIOOperation",
            [inDeviceObjectID |-> inDeviceObjectID,
             inStreamObjectID |-> inStreamObjectID, inClientID |-> inClientID,
             inOperationID |-> inOperationID,
             inIOBufferFrameSize |-> inIOBufferFrameSize,
             ioMainBufferNull |-> ioMainBufferNull,
             ioSecondaryBufferNull |-> ioSecondaryBufferNull],
            kAudioHardwareNoError, << >>)
  /\ UNCHANGED << driverState, threadVars, hostRef, hostSets >>

PlugIn_EndIOOperation(t, inDeviceObjectID, inClientID, inOperationID, inIOBufferFrameSize) ==
  /\ Enter(t)
  /\ Return("EndIOOperation",
            [inDeviceObjectID |-> inDeviceObjectID, inClientID |-> inClientID,
             inOperationID |-> inOperationID,
             inIOBufferFrameSize |-> inIOBufferFrameSize],
            kAudioHardwareNoError, << >>)
  /\ UNCHANGED << driverState, threadVars, hostRef, hostSets >>

(***************************************************************************)
(* Factory function                                                        *)
(***************************************************************************)
\* variant: the count is reset before the type UUID is checked
Create_StoresFirst(t, requestedTypeUUID) ==
  /\ pc[t] = "idle"
  /\ sDriverRefCount' = U32(1)
  /\ IF ~CFEqual(requestedTypeUUID, audioServerPlugInTypeUUID)
       THEN /\ Return("AppFadersDriver_Create",
                      [requestedTypeUUID |-> requestedTypeUUID], NULL, << >>)
            /\ UNCHANGED hostRef
       ELSE /\ Return("AppFadersDriver_Create",
                      [requestedTypeUUID |-> requestedTypeUUID], DriverRef,
                      << >>)
            /\ hostRef' = DriverRef
  /\ UNCHANGED << sHost, threadVars, hostSets >>

AppFadersDriver_Create(t, requestedTypeUUID) ==
  /\ pc[t] = "idle"
  /\ IF ~CFEqual(requestedTypeUUID, audioServerPlugInTypeUUID)
       THEN /\ Return("AppFadersDriver_Create",
                      [requestedTypeUUID |-> requestedTypeUUID], NULL, << >>)
            /\ UNCHANGED << sDriverRefCount, hostRef >>
       ELSE /\ sDriverRefCount' = U32(1)
            /\ Return("AppFadersDriver_Create",
                      [requestedTypeUUID |-> requestedTypeUUID], DriverRef,
                      << >>)
            /\ hostRef' = DriverRef
  /\ UNCHANGED << sHost, threadVars, hostSets >>

(***************************************************************************)
(* The calls the host can make, with their arguments.                      *)
(***************************************************************************)
\* inClientInfo and requestedTypeUUID are always valid objects: the handlers
\* dereference them unconditionally (lines 146, 157, 418) and the host never
\* passes NULL for them.
ClientInfos == [mClientID : ClientIDs, mProcessID : ProcessIDs]

QueryInterfaceCall(t) ==
  \E u \in UUIDs, n \in BOOLEAN : PlugIn_QueryInterface(t, CFUUIDBytes(u), n)

InitializeCall(t) == \E h \in Hosts \cup {NULL} : PlugIn_Initialize(t, h)

DeviceCall(t) ==
  \/ \E ci \in ClientInfos, n \in BOOLEAN : PlugIn_CreateDevice(t, ci, n)
  \/ \E d \in DeviceIDs : PlugIn_DestroyDevice(t, d)

ClientCall(t) ==
  \E d \in DeviceIDs, ci \in ClientInfos :
    \/ PlugIn_AddDeviceClient(t, d, ci)
    \/ PlugIn_RemoveDeviceClient(t, d, ci)

ConfigurationCall(t) ==
  \E d \in DeviceIDs :
    \/ PlugIn_PerformDeviceConfigurationChange(t, d, 0)
    \/ PlugIn_AbortDeviceConfigurationChange(t, d, 0)

PropertyCall(t) ==
  \E o \in ObjectIDs, p \in ProcessIDs, a \in Addresses :
    \/ PlugIn_HasProperty(t, o, p, a)
    \/ \E n \in BOOLEAN : PlugIn_IsPropertySettable(t, o, p, a, n)
    \/ \E q \in QualifierSizes, n \in BOOLEAN :
         PlugIn_GetPropertyDataSize(t, o, p, a, q, n)
    \/ \E q \in QualifierSizes, sz \in DataSizes, n1 \in BOOLEAN,
          n2 \in BOOLEAN :
         PlugIn_GetPropertyData(t, o, p, a, q, sz, n1, n2)
    \/ \E q \in QualifierSizes, sz \in DataSizes :
         PlugIn_SetPropertyData(t, o, p, a, q, sz)

StartStopCall(t) ==
  \E d \in DeviceIDs, c \in ClientIDs :
    \/ PlugIn_StartIO(t, d, c)
    \/ PlugIn_StopIO(t, d, c)

TimingCall(t) ==
  \E d \in DeviceIDs, c \in ClientIDs :
    \/ \E n1 \in BOOLEAN, n2 \in BOOLEAN, n3 \in BOOLEAN :
         PlugIn_GetZeroTimeStamp(t, d, c, n1, n2, n3)
    \/ \E op \in OperationIDs, n1 \in BOOLEAN, n2 \in BOOLEAN :
         PlugIn_WillDoIOOperation(t, d, c, op, n1, n2)

IOCycleCall(t) ==
  \E d \in DeviceIDs, c \in ClientIDs, op \in OperationIDs, f \in FrameSizes :
    \/ PlugIn_BeginIOOperation(t, d, c, op, f)
    \/ \E s \in StreamIDs, n1 \in BOOLEAN, n2 \in BOOLEAN :
         PlugIn_DoIOOperation(t, d, s, c, op, f, n1, n2)
    \/ PlugIn_EndIOOperation(t, d, c, op, f)

FactoryCall(t) == \E u \in UUIDs : AppFadersDriver_Create(t, u)

(***************************************************************************)
(* Spec: the host makes one call at a time, all on one of its threads.     *)
(***************************************************************************)
HostThread == CHOOSE t \in Threads : TRUE

Next ==
  \/ FactoryCall(HostThread)
  \/ QueryInterfaceCall(HostThread)
  \/ PlugIn_AddRef(HostThread)
  \/ PlugIn_Release_Load(HostThread)
  \/ PlugIn_Release_Finish(HostThread)
  \/ InitializeCall(HostThread)
  \/ DeviceCall(HostThread)
  \/ ClientCall(HostThread)
  \/ ConfigurationCall(HostThread)
  \/ PropertyCall(HostThread)
  \/ StartStopCall(HostThread)
  \/ TimingCall(HostThread)
  \/ IOCycleCall(HostThread)

Spec == Init /\ [][Next]_vars

(***************************************************************************)
(* SpecMT: the host's threads call the IUnknown methods and the factory    *)
(* concurrently; a step is one access to the atomic reference count.       *)
(***************************************************************************)
NextMT ==
  \/ \E t \in Threads : FactoryCall(t)
  \/ \E t \in Threads : QueryInterfaceCall(t)
  \/ \E t \in Threads : PlugIn_AddRef(t)
  \/ \E t \in Threads : PlugIn_Release_Load(t)
  \/ \E t \in Threads : PlugIn_Release_Finish(t)

SpecMT == Init /\ [][NextMT]_vars

(***************************************************************************)
(* Properties                                                              *)
(***************************************************************************)
\* a step in which a single-access handler `op` ran and returned
Returns(op) == pc' = pc /\ last'.op = op

hostView == << hostRef, hostClients, hostRunning >>

\* C1: CreateDevice and DestroyDevice always return
\* kAudioHardwareUnsupportedOperationError, store no new device id and change
\* neither the driver's state nor what the host holds.
C1_DeviceCallsRejected ==
  [][(Returns("CreateDevice") \/ Returns("DestroyDevice")) =>
       /\ last'.ret = kAudioHardwareUnsupportedOperationError
       /\ UNCHANGED << driverState, hostView >>
       /\ (last'.op = "CreateDevice" =>
             last'.out.outDeviceObjectID = NotWritten)]_vars

\* C1 witness: CreateDevice was called with a valid output location on an
\* initialised driver that has clients, and was rejected.
C1_Witness ==
  /\ last.op = "CreateDevice"
  /\ ~last.args.outDeviceObjectIDNull
  /\ last.ret = kAudioHardwareUnsupportedOperationError
  /\ sHost # NULL
  /\ hostClients # {}

\* C2: an AddDeviceClient for a client id that was added before and not
\* removed since fails.
C2_DuplicateAddFails ==
  (last.op = "AddDeviceClient" /\ last.pre.wasAdded) =>
    last.ret # kAudioHardwareNoError

\* C3: with valid output locations, IsPropertySettable, GetPropertyDataSize,
\* GetPropertyData and SetPropertyData return
\* kAudioHardwareUnknownPropertyError for every object and address for which
\* HasProperty answers false, and HasProperty's answer is that same answer.
PropertyOps ==
  {"IsPropertySettable", "GetPropertyDataSize", "GetPropertyData",
   "SetPropertyData"}

ValidOutputs(call) ==
  CASE call.op = "IsPropertySettable" -> ~call.args.outIsSettableNull
    [] call.op = "GetPropertyDataSize" -> ~call.args.outDataSizeNull
    [] call.op = "GetPropertyData" ->
         ~call.args.outDataSizeNull /\ ~call.args.outDataNull
    [] OTHER -> TRUE

Unsupported(call) ==
  \A p \in ProcessIDs :
    ~HasProperty(call.args.inObjectID, p, call.args.inAddress)

C3_UnknownPropertyEverywhere ==
  /\ (last.op \in PropertyOps /\ ValidOutputs(last) /\ Unsupported(last)) =>
       last.ret = kAudioHardwareUnknownPropertyError
  /\ (last.op = "HasProperty" /\ Unsupported(last)) => last.ret = FALSE

\* C3 witness: IsPropertySettable was called with a valid output location.
C3_Witness ==
  /\ last.op = "IsPropertySettable"
  /\ ~last.args.outIsSettableNull
  /\ Unsupported(last)

\* C4: the size GetPropertyData stores is never greater than the size stored
\* by the immediately preceding GetPropertyDataSize for the same object,
\* address and qualifier.
C4_DataWithinReportedSize ==
  (/\ last.op = "GetPropertyData"
   /\ last.out.outDataSize # NotWritten
   /\ last.pre.sizeReported # NotWritten) =>
    last.out.outDataSize[1] <= last.pre.sizeReported[1]

\* C4 witness: GetPropertyData with a non-empty buffer stored a size right
\* after GetPropertyDataSize stored one for the same key.
C4_Witness ==
  /\ last.op = "GetPropertyData"
  /\ last.args.inDataSize > 0
  /\ last.out.outDataSize # NotWritten
  /\ last.pre.sizeReported # NotWritten

\* C5: StopIO for a client that is not started returns
\* kAudioHardwareNoError and changes neither the driver's state nor the set
\* of started clients.
C5_StopIdleClientIsNoOp ==
  [][(Returns("StopIO") /\ ~last'.pre.wasRunning) =>
       /\ last'.ret = kAudioHardwareNoError
       /\ UNCHANGED << driverState, hostView >>]_vars

\* C5 witness: StopIO returned for a client that was not started while
\* another client is.
C5_Witness ==
  /\ last.op = "StopIO"
  /\ ~last.pre.wasRunning
  /\ hostRunning # {}

\* C6: BeginIOOperation, DoIOOperation and EndIOOperation return
\* kAudioHardwareNoError for all arguments in every state.
C6_IOCycleNeverFails ==
  last.op \in {"BeginIOOperation", "DoIOOperation", "EndIOOperation"} =>
    last.ret = kAudioHardwareNoError

\* C6 witness: DoIOOperation returned for a client that is not started, with
\* no buffers.
C6_Witness ==
  /\ last.op = "DoIOOperation"
  /\ last.args.inClientID \notin hostRunning
  /\ last.args.ioMainBufferNull
  /\ last.args.ioSecondaryBufferNull

\* C8: AppFadersDriver_Create returns the driver reference exactly when the
\* requested UUID is the plug-in type UUID; otherwise it returns NULL and
\* leaves the reference count unchanged.
C8_CreateChecksTypeUUID ==
  [][Returns("AppFadersDriver_Create") =>
       IF last'.args.requestedTypeUUID = audioServerPlugInTypeUUID
         THEN last'.ret = DriverRef
         ELSE last'.ret = NULL /\ UNCHANGED sDriverRefCount]_vars

\* C8 witness: the factory refused a UUID while the count was 2.
C8_Witness ==
  /\ last.op = "AppFadersDriver_Create"
  /\ last.ret = NULL
  /\ sDriverRefCount = U32(2)

\* C9: when a Release completes, it has decremented the count only if the
\* count was greater than zero at that moment, and on a count of zero it
\* leaves the count at zero and returns 0.
C9_ReleaseNeverUnderflows ==
  [][\A t \in Threads :
       (pc[t] = "Release_loaded" /\ pc'[t] = "idle") =>
         /\ sDriverRefCount' # sDriverRefCount =>
              U32Less(U32(0), sDriverRefCount)
         /\ sDriverRefCount = U32(0) =>
              sDriverRefCount' = U32(0) /\ last'.ret = U32(0)]_vars

\* C10: QueryInterface returns E_POINTER for a NULL output location, S_OK
\* with the driver reference for the driver-interface and IUnknown UUIDs,
\* and E_NOINTERFACE with a NULL result otherwise; the count goes up by
\* exactly one in the S_OK case and is unchanged in the other two.
C10_QueryInterfaceCountsOnSuccess ==
  [][Returns("QueryInterface") =>
       IF last'.args.outInterfaceNull
         THEN /\ last'.ret = E_POINTER
              /\ last'.out.outInterface = NotWritten
              /\ UNCHANGED sDriverRefCount
         ELSE IF last'.args.inUUID \in {CFUUIDBytes(driverInterfaceUUID),
                                        CFUUIDBytes(iunknownUUID)}
           THEN /\ last'.ret = S_OK
                /\ last'.out.outInterface = Written(DriverRef)
                /\ sDriverRefCount' = U32Inc(sDriverRefCount)
           ELSE /\ last'.ret = E_NOINTERFACE
                /\ last'.out.outInterface = Written(NULL)
                /\ UNCHANGED sDriverRefCount]_vars

\* C10 witness: QueryInterface refused an unsupported UUID while the count
\* was positive.
C10_Witness ==
  /\ last.op = "QueryInterface"
  /\ last.ret = E_NOINTERFACE
  /\ U32Less(U32(0), sDriverRefCount)

=============================================================================
